---- MODULE Spec2Model ----
(***************************************************************************)
(* Authentication and session lifecycle of the command-line assistant.     *)
(*                                                                         *)
(* The repository holds two AuthManager classes:                           *)
(*   auth/manager.ts  an EventEmitter with an AuthState enum, the held     *)
(*                    token and a refresh timer;                           *)
(*   auth/index.ts    a manager with a record of flags (initialized,       *)
(*                    authenticated, token, method, lastError).            *)
(* Both use the token storage of auth/tokens.ts and the OAuth flow of      *)
(* auth/oauth.ts.  A behaviour of this model is the life of one manager    *)
(* object: impl says which class was constructed.                          *)
(*                                                                         *)
(* Every async method is a coroutine: its code runs without interruption   *)
(* from one await to the next, and at an await any other continuation or   *)
(* timer callback of the event loop may run.  One action of the model is   *)
(* one such uninterrupted piece.  The body of an async function of the     *)
(* in-memory token storage runs when it is called, so a piece that ends    *)
(* in `await tokenStorage.x(...)` has x's effect before it suspends.       *)
(*                                                                         *)
(* Time is in seconds (Date.now() / 1000).                                 *)
(***************************************************************************)
EXTENDS Integers, Sequences, FiniteSets, Bags, TLC

\* ------------------------------------------------------------------ bounds

\* Calls (and timer callbacks) that may be in flight at once.
MaxCalls == 2
\* The clock advances MaxTicks times, by TickSeconds each time.
MaxTicks == 1
TickSeconds == 200

\* --------------------------------------------------------------- constants

\* config.tokenRefreshThreshold || 300
tokenRefreshThreshold == 300
\* config.maxRetryAttempts || 3
maxRetryAttempts == 3
\* data.expires_in || 3600
DefaultExpiresIn == 3600
\* apiKey.trim().length < 10
MinApiKeyLength == 10
\* Number.MAX_SAFE_INTEGER (2^53 - 1) lies outside TLC's integers; it is
\* represented by the largest integer TLC has.  Only its being non-zero and
\* later than every clock value is used.
MAX_SAFE_INTEGER == 2147483647

\* ------------------------------------------------------------------ values

\* null / undefined of a token, of a result
NULL == [isNull |-> TRUE]
\* an absent (undefined) string
NONE == "undefined"

INITIAL == "initial"
AUTHENTICATING == "authenticating"
AUTHENTICATED == "authenticated"
FAILED == "failed"
REFRESHING == "refreshing"

API_KEY == "api_key"
OAUTH == "oauth"

STATE_CHANGED == "auth:state_changed"
LOGGED_IN == "auth:logged_in"
LOGGED_OUT == "auth:logged_out"
TOKEN_REFRESHED == "auth:token_refreshed"
ERROR == "auth:error"

\* ErrorCategory
AUTHENTICATION == "ErrorCategory.AUTHENTICATION"
VALIDATION == "ErrorCategory.VALIDATION"

\* Strings whose length or characters matter are sequences of characters.
EmptyKey == <<>>
ShortKey == <<"s", "k", "-", "1", "2", "3", "4", "5", "6">>
PaddedKey == <<" ", "s", "k", "-", "1", "2", "3", "4", "5", "6", " ">>
ValidKey == <<"s", "k", "-", "1", "2", "3", "4", "5", "6", "7">>
ApiKeys == {EmptyKey, ShortKey, PaddedKey, ValidKey}

\* What the token endpoint may answer.
ServerAccessTokens == {<<"a", "c", "c", "e", "s", "s", "-", "1">>}
ServerRefreshTokens == {"rt1"}
\* expires_in of a response; 0 stands for an absent field
ExpiresInValues == {0, 200}

\* The random strings generateRandomString draws (state nonce, code).
Nonces == {"n1", "n2"}

TOKEN_KEY == "default"
AUTH_STORAGE_KEY == "anthropic-auth"

\* The configurations a manager is constructed with (manager.ts reads apiKey,
\* preferredMethod, autoRefresh; index.ts reads autoRefresh).
Configs ==
  { [apiKey |-> ValidKey, preferredMethod |-> NONE, autoRefresh |-> TRUE],
    [apiKey |-> EmptyKey, preferredMethod |-> OAUTH, autoRefresh |-> FALSE] }

\* ------------------------------------------------------------ pure helpers

Max(a, b) == IF a >= b THEN a ELSE b

IsSpace(ch) == ch = " "

RECURSIVE TrimStart(_)
TrimStart(s) ==
  IF s # <<>> /\ IsSpace(Head(s)) THEN TrimStart(Tail(s)) ELSE s

RECURSIVE TrimEnd(_)
TrimEnd(s) ==
  IF s # <<>> /\ IsSpace(s[Len(s)]) THEN TrimEnd(SubSeq(s, 1, Len(s) - 1)) ELSE s

\* String.prototype.trim
Trim(s) == TrimEnd(TrimStart(s))

\* tokens.ts isTokenExpired(token, thresholdSeconds) at clock value t
isTokenExpired(token, thresholdSeconds, t) ==
  IF token.expiresAt = 0 THEN FALSE
  ELSE token.expiresAt - t <= thresholdSeconds

\* tokens.ts validateToken(token) at clock value t
validateToken(token, t) ==
  IF token.accessToken = <<>> THEN FALSE
  ELSE IF isTokenExpired(token, 0, t) THEN FALSE
  ELSE TRUE

\* tokens.ts createAuthorizationHeader: `${tokenType} ${accessToken}`
createAuthorizationHeader(token) ==
  [tokenType |-> IF token.tokenType = "" THEN "Bearer" ELSE token.tokenType,
   accessToken |-> token.accessToken]

\* oauth.ts: the token built from a token-endpoint response at clock value t
TokenFromResponse(data, fallbackRefresh, t) ==
  [accessToken |-> data.access_token,
   refreshToken |-> IF data.refresh_token # NONE THEN data.refresh_token
                    ELSE fallbackRefresh,
   expiresAt |-> t + (IF data.expires_in # 0 THEN data.expires_in
                      ELSE DefaultExpiresIn),
   tokenType |-> "Bearer",
   scope |-> ""]

\* The successful responses of the token endpoint.
Responses ==
  [access_token : ServerAccessTokens,
   refresh_token : ServerRefreshTokens \cup {NONE},
   expires_in : ExpiresInValues]

\* why refreshOAuthToken throws: the fetch rejected (a transient network
\* error), or the answer was not ok (e.g. invalid_grant)
RefreshFailures == {"network", "invalid_grant"}

\* token storage: a Map from key to token
StoreGet(store, key) == IF key \in DOMAIN store THEN store[key] ELSE NULL
StoreSet(store, key, token) ==
  [k \in DOMAIN store \cup {key} |-> IF k = key THEN token ELSE store[k]]
StoreDelete(store, key) == [k \in DOMAIN store \ {key} |-> store[k]]
EmptyStore == [k \in {} |-> NULL]

\* ---------------------------------------------------- utils/async.ts: data

\* the bounds of the retry model: the largest maxRetries and the largest
\* number of failures of the wrapped function
MaxRetriesBound == 3
MaxFailures == 3

\* RetryOptions defaults
initialDelayMs == 1000
maxDelayMs == 10000

\* what the wrapped function throws: Error instances and a value that is no
\* Error (a string); `by` is the invocation that created the value, 0 for a
\* value created by withRetry itself
Thrown == {[kind |-> "Error", text |-> "transient"],
           [kind |-> "Error", text |-> "fatal"],
           [kind |-> "string", text |-> "boom"]}

\* `let lastError: Error = new Error('Unknown error')`
UnknownError == [kind |-> "Error", text |-> "Unknown error", by |-> 0]

\* `error instanceof Error ? error : new Error(String(error))`
toLastError(error) ==
  IF error.kind = "Error" THEN error
  ELSE [kind |-> "Error", text |-> error.text, by |-> 0]

\* options.isRetryable: absent, or a predicate that refuses fatal errors
RetryablePredicates == {NONE, "notFatal"}

isRetryable(pred, error) == error.text # "fatal"

\* Math.random() in tenths
RandomTenths == {0, 5}

Min(a, b) == IF a <= b THEN a ELSE b

RECURSIVE Pow2(_)
Pow2(k) == IF k <= 0 THEN 1 ELSE 2 * Pow2(k - 1)

\* calculateRetryDelay(attempt, options) with backoff, Math.random() = r/10
calculateRetryDelay(attempt, r) ==
  LET exponentialDelay == initialDelayMs * Pow2(attempt - 1)
      jitter == exponentialDelay \div 10
      jitteredDelay == exponentialDelay - jitter + (r * jitter * 2) \div 10
  IN  Min(jitteredDelay, maxDelayMs)

\* what options.onRetry throws, when it throws
CallbackError == [kind |-> "Error", text |-> "callback", by |-> 0]

\* an entry of the log of a call: what happened, in which attempt, with
\* which error
LogEntry(what, attempt, error) ==
  [what |-> what, attempt |-> attempt, error |-> error]

\* no call of a retrying function
NoRetry == [pc |-> "none", maxRetries |-> 0, isRetryable |-> NONE,
            onRetry |-> FALSE, script |-> <<>>, attempt |-> 0,
            lastError |-> UnknownError, delayMs |-> 0, fnCalls |-> 0,
            onRetryCalls |-> 0, outcome |-> "pending", value |-> NULL,
            onRetryThrows |-> FALSE, log |-> <<>>]

\* the bounds of the timeout model: the largest timeoutMs and the time
\* observed, in milliseconds
MaxTimeoutMs == 3
MaxElapsedMs == 4

\* what the wrapped function does when called: it throws before it returns
\* a promise, or it returns a promise that is fulfilled or rejected later,
\* if ever
FnBehaviours == {"throws", "fulfils", "rejects"}

\* no call of a function with a timeout
NoTimeout == [pc |-> "none", fn |-> "fulfils", timeoutMs |-> 0, elapsed |-> 0,
              timeoutId |-> "unset", inner |-> "notCalled",
              promise |-> "pending", value |-> NONE, order |-> <<>>]

\* the bounds of the pool model: the largest number of items and the
\* largest concurrency
MaxItems == 4
MaxConcurrency == 3

\* an empty slot of `new Array(items.length)`; the values of fn are positive
EMPTY == 0

\* the items are 1, 2, ..: items[index] for a 0-based index
ItemAt(index) == index + 1

\* the value fn(item, index) is fulfilled with
FnValue(item) == item + 100

\* no call of withConcurrency
NoPool == [pc |-> "none", length |-> 0, concurrency |-> 0, fails |-> {},
           currentIndex |-> 0, workers |-> <<>>, results |-> <<>>,
           outcome |-> "pending", error |-> 0, invoked |-> <<>>,
           startedAtFailure |-> -1]

\* the bounds of the display model: the longest access token and the
\* clock value of the call
MaxTokenLen == 9
DetailsNow == 100

\* the characters of the access tokens displayed
TokenChars == {"a", "b"}

\* the access tokens displayed: every string up to MaxTokenLen characters
AccessTokens == UNION {[1..n -> TokenChars] : n \in 0..MaxTokenLen}

\* String.prototype.substring(start, end): both indices are clamped to the
\* string and swapped if start > end
substring(str, start, end) ==
  LET a == Max(0, Min(start, Len(str)))
      b == Max(0, Min(end, Len(str)))
  IN  SubSeq(str, Min(a, b) + 1, Max(a, b))

\* tokens.ts formatTokenExpiration(expiresAt)
formatTokenExpiration(expiresAt) ==
  IF expiresAt = 0 THEN [text |-> "never", at |-> 0]
  ELSE [text |-> "toLocaleString", at |-> expiresAt * 1000]

\* tokens.ts getTokenDetails(token) at clock value t (scope and id are copied
\* when present)
getTokenDetails(token, t) ==
  [type |-> IF token.tokenType = NONE THEN "Bearer" ELSE token.tokenType,
   expires |-> IF token.expiresAt # 0 THEN formatTokenExpiration(token.expiresAt)
               ELSE [text |-> "Never", at |-> 0],
   expiresIn |-> IF token.expiresAt = 0 THEN [text |-> NONE, n |-> 0]
                 ELSE IF token.expiresAt - t > 0
                 THEN [text |-> "minutes", n |-> (token.expiresAt - t) \div 60]
                 ELSE [text |-> "Expired", n |-> 0],
   scope |-> token.scope,
   id |-> token.id,
   accessToken |->
     IF token.accessToken = <<>> THEN <<>>
     ELSE substring(token.accessToken, 0, 4) \o <<".", ".", ".">>
            \o substring(token.accessToken, Len(token.accessToken) - 4,
                         Len(token.accessToken))]

\* no call of getTokenDetails
NoDetails == [pc |-> "none", token |-> NULL, result |-> NULL]

\* ------------------------------------------------------------------- state

VARIABLES
  impl,          \* "manager" (auth/manager.ts) or "index" (auth/index.ts)
  config,        \* the configuration the manager was constructed with
  now,           \* the clock, in seconds
  tokenStore,    \* the Map of createTokenStorage()
  state,         \* manager.ts: this.state
  currentToken,  \* manager.ts: this.currentToken
  refreshTimer,  \* manager.ts: this.refreshTimer (0: null, else a timer id)
  timers,        \* the armed timers of the event loop: [id, due]
  authState,     \* index.ts: this.state (authenticated, token, method; the
                 \* fields initialized and lastError are written and never
                 \* read by the class, and are left out)
  calls,         \* the calls in flight, each suspended at an await
  ev,            \* the piece of code that ran last: what it was, what it emitted
  period,        \* the operations called since no call was in flight
  throwsOn,      \* the notifications for which a registered listener throws
  retry,         \* utils/async.ts: one call of a function made by withRetry
  timeout,       \* utils/async.ts: one call of a function made by withTimeout
  pool,          \* utils/async.ts: one call of withConcurrency
  details        \* tokens.ts: one call of getTokenDetails

\* the state of one manager object
authVars == <<impl, config, now, tokenStore, state, currentToken, refreshTimer,
              timers, authState, calls, ev, period>>

\* what the methods of the managers never write
utilVars == <<throwsOn, retry, timeout, pool, details>>

vars == <<authVars, utilVars>>

mgrVars == <<state, currentToken, refreshTimer, timers>>

\* A call in flight: the operation, the await it is suspended at, its locals.
NoCall ==
  [op |-> "", pc |-> "", via |-> "", tok |-> NULL, rt |-> NONE,
   nonce |-> NONE, recv |-> NONE, exch |-> 0, res |-> NULL]

InFlight == BagToSet(calls)
NumInFlight == BagCardinality(calls)
Idle == NumInFlight = 0
CanStart == NumInFlight < MaxCalls

Started(c) == calls (+) SetToBag({c})
Finished(c) == calls (-) SetToBag({c})
Moved(c, d) == (calls (-) SetToBag({c})) (+) SetToBag({d})

Ev(op, at, out, emitted) ==
  [op |-> op, at |-> at, out |-> out, emitted |-> emitted, err |-> NONE]

\* An operation is called: it joins the operations of this busy period, of
\* which the first two are remembered.  A call that returns without an await
\* joins as "returnedAtOnce".
Begin(op) ==
  period' = IF Idle THEN <<op>>
            ELSE IF Len(period) = 1 /\ period # <<"many">> THEN Append(period, op)
            ELSE <<"many">>

Init ==
  /\ impl \in {"manager", "index"}
  /\ config \in Configs
  /\ now = 0
  /\ tokenStore = EmptyStore
  /\ state = INITIAL
  /\ currentToken = NULL
  /\ refreshTimer = 0
  /\ timers = {}
  /\ authState = [authenticated |-> FALSE, token |-> NULL, method |-> NONE]
  /\ calls = EmptyBag
  /\ ev = Ev("constructor", "return", "", <<>>)
  /\ period = <<>>
  /\ throwsOn = {}
  /\ retry = NoRetry
  /\ timeout = NoTimeout
  /\ pool = NoPool
  /\ details = NoDetails

\* The clock advances.
Tick ==
  /\ now < MaxTicks * TickSeconds
  /\ now' = now + TickSeconds
  /\ ev' = Ev("", "tick", "", <<>>)
  /\ UNCHANGED <<utilVars, impl, config, period, tokenStore, state, currentToken, refreshTimer,
                 timers, authState, calls>>

\* ------------------------------------------------- auth/manager.ts helpers

\* setState(newState): what it emits (the assignment is in the action)
setStateEmits(old, new) == IF old # new THEN <<STATE_CHANGED>> ELSE <<>>

\* isAuthenticated()
isAuthenticated == state = AUTHENTICATED /\ currentToken # NULL

\* getAuthorizationHeader(): null, or `${tokenType} ${accessToken}`
getAuthorizationHeader ==
  IF currentToken = NULL THEN NULL
  ELSE [tokenType |-> currentToken.tokenType,
        accessToken |-> currentToken.accessToken]

clearTimeout(tm, id) == {t \in tm : t.id # id}

\* setTimeout: the handle of a new timer, distinct from every handle in use
NewTimerId(tm, held) ==
  CHOOSE i \in 1..(Cardinality(tm) + 2) :
    /\ i # held
    /\ \A t \in tm : t.id # i
    /\ \A j \in 1..(i - 1) : j = held \/ \E t \in tm : t.id = j

\* A scheduleTokenRefresh() that arms the new timer without cancelling the
\* one armed before.
scheduleTokenRefreshKeepsTimer(cur, rT, tm, t) ==
  IF cur = NULL \/ cur.refreshToken = NONE
  THEN [refreshTimer |-> rT, timers |-> tm]
  ELSE LET id == NewTimerId(tm, 0)
       IN  [refreshTimer |-> id,
            timers |-> tm \cup {[id |-> id,
                                 due |-> t + Max(0, cur.expiresAt - t
                                                    - tokenRefreshThreshold)]}]

\* scheduleTokenRefresh(): the timer fields after it, for held token cur
scheduleTokenRefresh(cur, rT, tm, t) ==
  LET cleared == IF rT # 0 THEN clearTimeout(tm, rT) ELSE tm
  IN  IF cur = NULL \/ cur.refreshToken = NONE
      THEN [refreshTimer |-> 0, timers |-> cleared]
      ELSE LET expiresIn == cur.expiresAt - t
               refreshIn == Max(0, expiresIn - tokenRefreshThreshold)
               id == NewTimerId(cleared, 0)
           IN  [refreshTimer |-> id,
                timers |-> cleared \cup {[id |-> id, due |-> t + refreshIn]}]

\* authenticate(method): the method used
ResolveMethod(method, cfg) ==
  IF method # NONE THEN method
  ELSE IF cfg.preferredMethod # NONE THEN cfg.preferredMethod
  ELSE IF cfg.apiKey # <<>> THEN API_KEY
  ELSE OAUTH

\* manager.ts authenticateWithApiKey(): its AuthResult
managerApiKeyResult(cfg) ==
  IF cfg.apiKey = <<>>
  THEN [success |-> FALSE, token |-> NULL, error |-> "No API key available",
        method |-> NONE]
  ELSE [success |-> TRUE,
        token |-> [accessToken |-> cfg.apiKey, refreshToken |-> NONE,
                   expiresAt |-> MAX_SAFE_INTEGER, tokenType |-> "Bearer",
                   scope |-> "all"],
        error |-> NONE, method |-> API_KEY]

\* Whether this call directly follows the return of a logout().
AfterLogout ==
  IF ev.op = "logout" /\ ev.at = "return" THEN "afterLogout" ELSE ""

\* logout() is called: while a refresh or an authentication is suspended on
\* its network exchange, or not
LogoutCalled ==
  IF \E c \in InFlight : \/ c.op = "refreshToken" /\ c.pc = "fetch"
                         \/ c.op = "authenticate" /\ c.pc = "exchange"
  THEN "logoutDuringExchange" ELSE "logout"

\* A piece of code that returns to the caller of the operation.
Return(c, op, out, emitted) ==
  /\ calls' = Finished(c)
  /\ ev' = Ev(op, "return", out, emitted)

\* A piece of code that ends at an await.
Suspend(c, d, op, at, emitted) ==
  /\ calls' = Moved(c, d)
  /\ ev' = Ev("", "await", "", emitted)

\* ------------------------------------------------ auth/manager.ts actions

\* initialize(), to `await this.tokenStorage.getToken(this.tokenKey)`
ManagerInitialize ==
  /\ impl = "manager"
  /\ calls' = Started([NoCall EXCEPT !.op = "initialize", !.pc = "getToken",
                                     !.tok = StoreGet(tokenStore, TOKEN_KEY)])
  /\ ev' = Ev("", "call", "", <<>>)
  /\ Begin("initialize")
  /\ UNCHANGED <<utilVars, impl, config, now, tokenStore, mgrVars, authState>>

\* the synchronous start of refreshToken() for a held refreshable token:
\* setState(REFRESHING), then the fetch of refreshOAuthToken is in flight
RefreshStarted(c, via, token) ==
  [c EXCEPT !.op = "refreshToken", !.pc = "fetch", !.via = via,
            !.rt = token.refreshToken, !.exch = 1]

\* initialize(), from the loaded token to its return or to the await of
\* refreshToken()
ManagerInitializeLoaded(c) ==
  /\ impl = "manager"
  /\ c \in InFlight /\ c.op = "initialize" /\ c.pc = "getToken"
  /\ IF c.tok = NULL
     THEN /\ currentToken' = NULL
          /\ state' = INITIAL
          /\ Return(c, "initialize", "noToken", setStateEmits(state, INITIAL))
          /\ UNCHANGED <<refreshTimer, timers>>
     ELSE IF isTokenExpired(c.tok, tokenRefreshThreshold, now)
     THEN IF c.tok.refreshToken # NONE
          THEN /\ currentToken' = c.tok
               /\ state' = REFRESHING
               /\ Suspend(c, RefreshStarted(c, "initialize", c.tok),
                          "initialize", "refresh",
                          setStateEmits(state, REFRESHING))
               /\ UNCHANGED <<refreshTimer, timers>>
          ELSE /\ currentToken' = NULL
               /\ state' = INITIAL
               /\ Return(c, "initialize", "expired",
                         setStateEmits(state, INITIAL))
               /\ UNCHANGED <<refreshTimer, timers>>
     ELSE LET sched == IF config.autoRefresh
                       THEN scheduleTokenRefresh(c.tok, refreshTimer, timers, now)
                       ELSE [refreshTimer |-> refreshTimer, timers |-> timers]
          IN  /\ currentToken' = c.tok
              /\ state' = AUTHENTICATED
              /\ refreshTimer' = sched.refreshTimer
              /\ timers' = sched.timers
              /\ Return(c, "initialize", "valid",
                        setStateEmits(state, AUTHENTICATED))
  /\ UNCHANGED <<utilVars, impl, config, period, now, tokenStore, authState>>

\* refreshToken(): refreshOAuthToken resolved with the token of response
\* data; `this.currentToken = newToken`, to `await saveToken(...)`
ManagerRefreshFetched(c, data) ==
  /\ impl = "manager"
  /\ c \in InFlight /\ c.op = "refreshToken" /\ c.pc = "fetch"
  /\ data \in Responses
  /\ LET newToken == TokenFromResponse(data, c.rt, now)
     IN  /\ currentToken' = newToken
         /\ tokenStore' = StoreSet(tokenStore, TOKEN_KEY, newToken)
         /\ Suspend(c, [c EXCEPT !.pc = "saveToken", !.tok = newToken,
                                  !.rt = NONE],
                    "refreshToken", "saveToken", <<>>)
  /\ UNCHANGED <<utilVars, impl, config, period, now, state, refreshTimer, timers, authState>>

\* refreshToken(), after the save: setState(AUTHENTICATED), emit, schedule;
\* it returns to the timer callback or resolves the await of initialize()
ManagerRefreshSaved(c) ==
  /\ impl = "manager"
  /\ c \in InFlight /\ c.op = "refreshToken" /\ c.pc = "saveToken"
  /\ LET sched == IF config.autoRefresh
                  THEN scheduleTokenRefresh(currentToken, refreshTimer, timers, now)
                  ELSE [refreshTimer |-> refreshTimer, timers |-> timers]
         emitted == setStateEmits(state, AUTHENTICATED) \o <<TOKEN_REFRESHED>>
     IN  /\ state' = AUTHENTICATED
         /\ refreshTimer' = sched.refreshTimer
         /\ timers' = sched.timers
         /\ IF c.via = "initialize"
            THEN Suspend(c, [c EXCEPT !.op = "initialize", !.pc = "refreshed"],
                         "refreshToken", "return", emitted)
            ELSE Return(c, "refreshToken", "refreshed", emitted)
  /\ UNCHANGED <<utilVars, impl, config, period, now, tokenStore, currentToken, authState>>

\* A refreshToken() whose catch block rethrows without setState(FAILED): the
\* manager stays Refreshing.
ManagerRefreshFailedKeepsState(c) ==
  /\ impl = "manager"
  /\ c \in InFlight /\ c.op = "refreshToken" /\ c.pc = "fetch"
  /\ IF c.via = "initialize"
     THEN Suspend(c, [c EXCEPT !.op = "initialize", !.pc = "refreshThrew",
                               !.rt = NONE],
                  "refreshToken", "throw", <<ERROR>>)
     ELSE /\ calls' = Finished(c)
          /\ \E failure \in RefreshFailures :
               ev' = [Ev("refreshToken", "return", "failed", <<ERROR>>)
                        EXCEPT !.err = failure]
  /\ UNCHANGED <<utilVars, impl, config, period, now, tokenStore, state,
                 currentToken, refreshTimer, timers, authState>>

\* refreshToken(): refreshOAuthToken threw (the fetch failed, or the answer
\* was not ok, e.g. invalid_grant); the catch block, which rethrows
ManagerRefreshFailed(c) ==
  /\ impl = "manager"
  /\ c \in InFlight /\ c.op = "refreshToken" /\ c.pc = "fetch"
  /\ state' = FAILED
  /\ LET emitted == setStateEmits(state, FAILED) \o <<ERROR>>
     IN  IF c.via = "initialize"
         THEN Suspend(c, [c EXCEPT !.op = "initialize", !.pc = "refreshThrew",
                                   !.rt = NONE],
                      "refreshToken", "throw", emitted)
         ELSE /\ calls' = Finished(c)
              /\ \E failure \in RefreshFailures :
                   ev' = [Ev("refreshToken", "return", "failed", emitted)
                            EXCEPT !.err = failure]
  /\ UNCHANGED <<utilVars, impl, config, period, now, tokenStore, currentToken, refreshTimer,
                 timers, authState>>

\* initialize(): the await of refreshToken() resolved; it returns
ManagerInitializeRefreshed(c) ==
  /\ impl = "manager"
  /\ c \in InFlight /\ c.op = "initialize" /\ c.pc = "refreshed"
  /\ Return(c, "initialize", "refreshed", <<>>)
  /\ UNCHANGED <<utilVars, impl, config, period, now, tokenStore, mgrVars, authState>>

\* An initialize() whose inner catch block only logs: the credential and the
\* Failed state of refreshToken() stay.
ManagerInitializeCatchKeeps(c) ==
  /\ impl = "manager"
  /\ c \in InFlight /\ c.op = "initialize" /\ c.pc = "refreshThrew"
  /\ Return(c, "initialize", "refreshFailed", <<>>)
  /\ UNCHANGED <<utilVars, impl, config, period, now, tokenStore, mgrVars, authState>>

\* initialize(): the await of refreshToken() threw; the inner catch block
ManagerInitializeCatch(c) ==
  /\ impl = "manager"
  /\ c \in InFlight /\ c.op = "initialize" /\ c.pc = "refreshThrew"
  /\ currentToken' = NULL
  /\ state' = INITIAL
  /\ Return(c, "initialize", "refreshFailed", setStateEmits(state, INITIAL))
  /\ UNCHANGED <<utilVars, impl, config, period, now, tokenStore, refreshTimer, timers, authState>>

\* An armed timer fires: `this.refreshToken().catch(...)`.  Without a held
\* refreshable token refreshToken() throws at once and the catch logs it.
ManagerTimerFires(t) ==
  /\ impl = "manager"
  /\ t \in timers /\ t.due <= now
  /\ timers' = timers \ {t}
  /\ IF currentToken = NULL \/ currentToken.refreshToken = NONE
     THEN /\ ev' = Ev("refreshToken", "return", "noRefreshToken", <<>>)
          /\ UNCHANGED <<calls, state>>
     ELSE /\ state' = REFRESHING
          /\ calls' = Started(RefreshStarted(NoCall, "timer", currentToken))
          /\ ev' = Ev("", "call", "", setStateEmits(state, REFRESHING))
  /\ Begin(IF currentToken = NULL \/ currentToken.refreshToken = NONE
           THEN "returnedAtOnce" ELSE "refreshToken")
  /\ UNCHANGED <<utilVars, impl, config, now, tokenStore, currentToken, refreshTimer,
                 authState>>

\* logout(), to `await this.tokenStorage.deleteToken(this.tokenKey)`
ManagerLogout ==
  /\ impl = "manager"
  /\ refreshTimer' = 0
  /\ timers' = IF refreshTimer # 0 THEN clearTimeout(timers, refreshTimer)
               ELSE timers
  /\ tokenStore' = StoreDelete(tokenStore, TOKEN_KEY)
  /\ calls' = Started([NoCall EXCEPT !.op = "logout", !.pc = "deleteToken",
                                     !.via = AfterLogout])
  /\ ev' = Ev("", "call", "", <<>>)
  /\ Begin(LogoutCalled)
  /\ UNCHANGED <<utilVars, impl, config, now, state, currentToken, authState>>

\* logout(), after the delete: reset state, emit, return
ManagerLogoutDeleted(c) ==
  /\ impl = "manager"
  /\ c \in InFlight /\ c.op = "logout" /\ c.pc = "deleteToken"
  /\ currentToken' = NULL
  /\ state' = INITIAL
  /\ Return(c, "logout", c.via, setStateEmits(state, INITIAL) \o <<LOGGED_OUT>>)
  /\ UNCHANGED <<utilVars, impl, config, period, now, tokenStore, refreshTimer, timers, authState>>

\* ------------------------------------------------------- auth/oauth.ts

\* A performOAuthFlow that accepts whatever state the callback carries.
StateMismatchIgnored(sent, received) == FALSE

\* performOAuthFlow: `state !== receivedState`
StateMismatch(sent, received) == sent # received

FlowFailure(error) ==
  [success |-> FALSE, token |-> NULL, error |-> error, method |-> OAUTH]

\* performOAuthFlow, to `await open(authUrl)`, with state nonce n
FlowStarted(n) ==
  [NoCall EXCEPT !.op = "authenticate", !.pc = "open", !.nonce = n]

\* performOAuthFlow: the browser opened; to the await of the callback
OAuthBrowserOpened(c) ==
  /\ c \in InFlight /\ c.op = "authenticate" /\ c.pc = "open"
  /\ Suspend(c, [c EXCEPT !.pc = "callback"], "performOAuthFlow", "callback", <<>>)
  /\ UNCHANGED <<utilVars, impl, config, period, now, tokenStore, mgrVars, authState>>

\* performOAuthFlow: open() threw; the catch block builds the failure result
OAuthBrowserFailed(c) ==
  /\ c \in InFlight /\ c.op = "authenticate" /\ c.pc = "open"
  /\ Suspend(c, [c EXCEPT !.pc = "result", !.res = FlowFailure("open failed")],
             "performOAuthFlow", "result", <<>>)
  /\ UNCHANGED <<utilVars, impl, config, period, now, tokenStore, mgrVars, authState>>

\* performOAuthFlow: the callback arrived with receivedState; the state check,
\* then the POST of exchangeCodeForToken or the failure result
OAuthCallback(c, receivedState) ==
  /\ c \in InFlight /\ c.op = "authenticate" /\ c.pc = "callback"
  /\ receivedState \in Nonces
  /\ IF StateMismatch(c.nonce, receivedState)
     THEN Suspend(c, [c EXCEPT !.pc = "result", !.recv = receivedState,
                               !.res = FlowFailure("OAuth state mismatch")],
                  "performOAuthFlow", "result", <<>>)
     ELSE Suspend(c, [c EXCEPT !.pc = "exchange", !.recv = receivedState,
                               !.exch = c.exch + 1],
                  "performOAuthFlow", "exchange", <<>>)
  /\ UNCHANGED <<utilVars, impl, config, period, now, tokenStore, mgrVars, authState>>

\* exchangeCodeForToken: the token endpoint answered ok with data
OAuthExchanged(c, data) ==
  /\ c \in InFlight /\ c.op = "authenticate" /\ c.pc = "exchange"
  /\ data \in Responses
  /\ Suspend(c, [c EXCEPT !.pc = "result", !.nonce = NONE, !.recv = NONE,
                          !.res = [success |-> TRUE,
                                   token |-> TokenFromResponse(data, NONE, now),
                                   error |-> NONE, method |-> OAUTH]],
             "performOAuthFlow", "result", <<>>)
  /\ UNCHANGED <<utilVars, impl, config, period, now, tokenStore, mgrVars, authState>>

\* exchangeCodeForToken threw (the fetch failed or the answer was not ok)
OAuthExchangeFailed(c) ==
  /\ c \in InFlight /\ c.op = "authenticate" /\ c.pc = "exchange"
  /\ Suspend(c, [c EXCEPT !.pc = "result", !.nonce = NONE, !.recv = NONE,
                          !.res = FlowFailure("Failed to exchange code for token")],
             "performOAuthFlow", "result", <<>>)
  /\ UNCHANGED <<utilVars, impl, config, period, now, tokenStore, mgrVars, authState>>

\* -------------------------------------- auth/manager.ts authenticate()

\* authenticate(method), to the await of authenticateWithApiKey() or of
\* authenticateWithOAuth()
ManagerAuthenticate(method, n) ==
  /\ impl = "manager"
  /\ method \in {NONE, API_KEY, OAUTH}
  /\ n \in Nonces
  /\ state' = AUTHENTICATING
  /\ calls' = Started(IF ResolveMethod(method, config) = API_KEY
                      THEN [NoCall EXCEPT !.op = "authenticate", !.pc = "result",
                                          !.via = API_KEY,
                                          !.res = managerApiKeyResult(config)]
                      ELSE [FlowStarted(n) EXCEPT !.via = OAUTH])
  /\ ev' = Ev("", "call", "", setStateEmits(state, AUTHENTICATING))
  /\ Begin(IF ResolveMethod(method, config) = API_KEY
           THEN "authenticateWithApiKey" ELSE "authenticateWithOAuth")
  /\ UNCHANGED <<utilVars, impl, config, now, tokenStore, currentToken, refreshTimer,
                 timers, authState>>

\* the private method authenticate() delegated to, by its authMethod
AuthOp(c) ==
  IF c.via = API_KEY THEN "authenticateWithApiKey"
  ELSE "authenticateWithOAuth"

\* authenticate(): the result arrived; on success to `await saveToken(...)`,
\* else setState(FAILED), emit, return
ManagerAuthenticateResult(c) ==
  /\ impl = "manager"
  /\ c \in InFlight /\ c.op = "authenticate" /\ c.pc = "result"
  /\ IF c.res.success /\ c.res.token # NULL
     THEN /\ currentToken' = c.res.token
          /\ tokenStore' = StoreSet(tokenStore, TOKEN_KEY, c.res.token)
          /\ Suspend(c, [c EXCEPT !.pc = "saveToken"], "authenticate",
                     "saveToken", <<>>)
          /\ UNCHANGED state
     ELSE /\ state' = FAILED
          /\ Return(c, AuthOp(c), "failed",
                    setStateEmits(state, FAILED) \o <<ERROR>>)
          /\ UNCHANGED <<currentToken, tokenStore>>
  /\ UNCHANGED <<utilVars, impl, config, period, now, refreshTimer, timers, authState>>

\* authenticate(), after the save: setState(AUTHENTICATED), emit, schedule
ManagerAuthenticateSaved(c) ==
  /\ impl = "manager"
  /\ c \in InFlight /\ c.op = "authenticate" /\ c.pc = "saveToken"
  /\ LET sched == IF config.autoRefresh /\ c.res.token.refreshToken # NONE
                  THEN scheduleTokenRefresh(currentToken, refreshTimer, timers, now)
                  ELSE [refreshTimer |-> refreshTimer, timers |-> timers]
     IN  /\ state' = AUTHENTICATED
         /\ refreshTimer' = sched.refreshTimer
         /\ timers' = sched.timers
         /\ Return(c, AuthOp(c), "success",
                   setStateEmits(state, AUTHENTICATED) \o <<LOGGED_IN>>)
  /\ UNCHANGED <<utilVars, impl, config, period, now, tokenStore, currentToken, authState>>

\* ------------------------------ auth/manager.ts with listeners that throw

\* EventEmitter.emit calls the listeners synchronously and catches nothing:
\* a listener's exception leaves emit(), and setState() with it.  The pieces
\* below are those of manager.ts that emit, for a manager whose credentials
\* come from the API key of its configuration (a static credential: no
\* refresh, no timer to fire); the pieces that emit nothing are the actions
\* above.

Events == {STATE_CHANGED, LOGGED_IN, LOGGED_OUT, TOKEN_REFRESHED, ERROR}

\* emit(e) throws
Throws(e) == e \in throwsOn

\* setState(new) throws: it assigns, then emits if the state changed
setStateThrows(old, new) == old # new /\ Throws(STATE_CHANGED)

InitListener ==
  /\ impl = "manager"
  /\ config \in Configs
  /\ now = 0
  /\ tokenStore = EmptyStore
  /\ state = INITIAL
  /\ currentToken = NULL
  /\ refreshTimer = 0
  /\ timers = {}
  /\ authState = [authenticated |-> FALSE, token |-> NULL, method |-> NONE]
  /\ calls = EmptyBag
  /\ ev = Ev("constructor", "return", "", <<>>)
  /\ period = <<>>
  /\ throwsOn \in SUBSET Events
  /\ retry = NoRetry
  /\ timeout = NoTimeout
  /\ pool = NoPool
  /\ details = NoDetails

\* authenticate(AuthMethod.API_KEY), to the await of authenticateWithApiKey();
\* setState(AUTHENTICATING) is outside the try block
ListenerAuthenticate ==
  /\ impl = "manager"
  /\ state' = AUTHENTICATING
  /\ IF setStateThrows(state, AUTHENTICATING)
     THEN /\ ev' = Ev("authenticateWithApiKey", "return", "listenerThrew",
                     <<STATE_CHANGED>>)
          /\ Begin("returnedAtOnce")
          /\ UNCHANGED calls
     ELSE /\ calls' = Started([NoCall EXCEPT
                                 !.op = "authenticate", !.pc = "result",
                                 !.via = API_KEY,
                                 !.res = managerApiKeyResult(config)])
          /\ ev' = Ev("", "call", "", setStateEmits(state, AUTHENTICATING))
          /\ Begin("authenticateWithApiKey")
  /\ UNCHANGED <<utilVars, impl, config, now, tokenStore, currentToken,
                 refreshTimer, timers, authState>>

\* authenticate(): the result arrived.  On failure setState(FAILED) and
\* emit(ERROR) run inside the try block: what they throw reaches the catch
\* block, which calls setState(FAILED) and emit(ERROR) again.
ListenerAuthenticateResult(c) ==
  /\ impl = "manager"
  /\ c \in InFlight /\ c.op = "authenticate" /\ c.pc = "result"
  /\ IF c.res.success /\ c.res.token # NULL
     THEN /\ currentToken' = c.res.token
          /\ tokenStore' = StoreSet(tokenStore, TOKEN_KEY, c.res.token)
          /\ Suspend(c, [c EXCEPT !.pc = "saveToken"], "authenticate",
                     "saveToken", <<>>)
          /\ UNCHANGED state
     ELSE /\ state' = FAILED
          /\ Return(c, AuthOp(c),
                    IF Throws(ERROR) THEN "listenerThrew" ELSE "failed",
                    setStateEmits(state, FAILED) \o <<ERROR>>
                      \o (IF ~setStateThrows(state, FAILED) /\ Throws(ERROR)
                          THEN <<ERROR>> ELSE <<>>))
          /\ UNCHANGED <<currentToken, tokenStore>>
  /\ UNCHANGED <<utilVars, impl, config, period, now, refreshTimer, timers,
                 authState>>

\* authenticate(), after the save: setState(AUTHENTICATED), emit(LOGGED_IN),
\* schedule, return the result; an exception reaches the catch block:
\* setState(FAILED), emit(ERROR), return a failure result
ListenerAuthenticateSaved(c) ==
  /\ impl = "manager"
  /\ c \in InFlight /\ c.op = "authenticate" /\ c.pc = "saveToken"
  /\ LET sched == IF config.autoRefresh /\ c.res.token.refreshToken # NONE
                  THEN scheduleTokenRefresh(currentToken, refreshTimer, timers, now)
                  ELSE [refreshTimer |-> refreshTimer, timers |-> timers]
         first == setStateEmits(state, AUTHENTICATED)
     IN  IF setStateThrows(state, AUTHENTICATED)
         THEN \* the catch block's setState(FAILED) throws as well
              /\ state' = FAILED
              /\ Return(c, AuthOp(c), "listenerThrew",
                        <<STATE_CHANGED, STATE_CHANGED>>)
              /\ UNCHANGED <<refreshTimer, timers>>
         ELSE IF Throws(LOGGED_IN)
         THEN /\ state' = FAILED
              /\ Return(c, AuthOp(c),
                        IF Throws(STATE_CHANGED) \/ Throws(ERROR)
                        THEN "listenerThrew" ELSE "failed",
                        first \o <<LOGGED_IN, STATE_CHANGED>>
                          \o (IF Throws(STATE_CHANGED) THEN <<>> ELSE <<ERROR>>))
              /\ UNCHANGED <<refreshTimer, timers>>
         ELSE /\ state' = AUTHENTICATED
              /\ refreshTimer' = sched.refreshTimer
              /\ timers' = sched.timers
              /\ Return(c, AuthOp(c), "success", first \o <<LOGGED_IN>>)
  /\ UNCHANGED <<utilVars, impl, config, period, now, tokenStore, currentToken,
                 authState>>

\* logout(), after the delete: `this.currentToken = null`, setState(INITIAL),
\* emit(LOGGED_OUT); nothing catches
ListenerLogoutDeleted(c) ==
  /\ impl = "manager"
  /\ c \in InFlight /\ c.op = "logout" /\ c.pc = "deleteToken"
  /\ currentToken' = NULL
  /\ state' = INITIAL
  /\ IF setStateThrows(state, INITIAL)
     THEN Return(c, "logout", "listenerThrew", <<STATE_CHANGED>>)
     ELSE Return(c, "logout",
                 IF Throws(LOGGED_OUT) THEN "listenerThrew" ELSE c.via,
                 setStateEmits(state, INITIAL) \o <<LOGGED_OUT>>)
  /\ UNCHANGED <<utilVars, impl, config, period, now, tokenStore, refreshTimer,
                 timers, authState>>

\* initialize(), from a loaded token that is absent or static to its return;
\* what setState throws reaches the outer catch block: setState(FAILED),
\* emit(ERROR)
ListenerInitializeLoaded(c) ==
  /\ impl = "manager"
  /\ c \in InFlight /\ c.op = "initialize" /\ c.pc = "getToken"
  /\ IF c.tok = NULL THEN TRUE ELSE c.tok.refreshToken = NONE
  /\ LET valid == c.tok # NULL /\ ~isTokenExpired(c.tok, tokenRefreshThreshold, now)
         target == IF valid THEN AUTHENTICATED ELSE INITIAL
         sched == IF valid /\ config.autoRefresh
                  THEN scheduleTokenRefresh(c.tok, refreshTimer, timers, now)
                  ELSE [refreshTimer |-> refreshTimer, timers |-> timers]
     IN  /\ currentToken' = IF valid THEN c.tok ELSE NULL
         /\ IF setStateThrows(state, target)
            THEN \* the catch block's setState(FAILED) throws as well
                 /\ state' = FAILED
                 /\ Return(c, "initialize", "listenerThrew",
                           <<STATE_CHANGED, STATE_CHANGED>>)
                 /\ UNCHANGED <<refreshTimer, timers>>
            ELSE /\ state' = target
                 /\ refreshTimer' = sched.refreshTimer
                 /\ timers' = sched.timers
                 /\ Return(c, "initialize",
                           IF valid THEN "valid"
                           ELSE IF c.tok = NULL THEN "noToken" ELSE "expired",
                           setStateEmits(state, target))
  /\ UNCHANGED <<utilVars, impl, config, period, now, tokenStore, authState>>

\* ------------------------------------------------- utils/async.ts withRetry

\* the utilities of utils/async.ts use no manager: one stays as constructed
AuthUnused ==
  /\ impl = "manager"
  /\ config = [apiKey |-> ValidKey, preferredMethod |-> NONE, autoRefresh |-> TRUE]
  /\ now = 0
  /\ tokenStore = EmptyStore
  /\ state = INITIAL
  /\ currentToken = NULL
  /\ refreshTimer = 0
  /\ timers = {}
  /\ authState = [authenticated |-> FALSE, token |-> NULL, method |-> NONE]
  /\ calls = EmptyBag
  /\ ev = Ev("constructor", "return", "", <<>>)
  /\ period = <<>>
  /\ throwsOn = {}

\* the value the k-th invocation of the wrapped function throws
ThrownBy(k) ==
  [kind |-> retry.script[k].kind, text |-> retry.script[k].text, by |-> k]

\* withRetry(fn, options) was called with maxRetries, isRetryable and onRetry;
\* fn fails Len(script) times with the values of the script, then succeeds
InitRetry ==
  /\ AuthUnused
  /\ timeout = NoTimeout
  /\ pool = NoPool
  /\ details = NoDetails
  /\ \E maxRetries \in 0..MaxRetriesBound, pred \in RetryablePredicates,
        onRetry \in BOOLEAN, onRetryThrows \in BOOLEAN, k \in 0..MaxFailures :
       \E script \in [1..k -> Thrown] :
         /\ onRetryThrows => onRetry
         /\ retry = [NoRetry EXCEPT !.pc = "idle", !.maxRetries = maxRetries,
                                    !.isRetryable = pred, !.onRetry = onRetry,
                                    !.onRetryThrows = onRetryThrows,
                                    !.script = script]

\* the wrapper is called: attempt 0 invokes fn and awaits it
RetryCall ==
  /\ retry.pc = "idle"
  /\ retry' = [retry EXCEPT !.pc = "fn", !.attempt = 0,
                            !.lastError = UnknownError, !.fnCalls = 1,
                            !.log = <<LogEntry("fn", 0, UnknownError)>>]
  /\ UNCHANGED <<authVars, throwsOn, timeout, pool, details>>

\* the catch block for a value thrown in the try block, and the loop to the
\* delay of the next attempt, with Math.random() = r/10
Caught(t, error, r) ==
  LET lastError == toLastError(error)
  IN  IF t.attempt >= t.maxRetries
      THEN [t EXCEPT !.pc = "done", !.outcome = "rejected",
                     !.lastError = lastError, !.value = lastError]
      ELSE IF t.isRetryable # NONE /\ ~isRetryable(t.isRetryable, lastError)
      THEN [t EXCEPT !.pc = "done", !.outcome = "rejected",
                     !.lastError = lastError, !.value = lastError]
      ELSE [t EXCEPT !.pc = "delay", !.lastError = lastError,
                     !.attempt = t.attempt + 1,
                     !.delayMs = calculateRetryDelay(t.attempt + 1, r),
                     !.log = Append(t.log,
                                    LogEntry("sleep", t.attempt + 1, lastError))]

\* the awaited fn settles: its value is returned, or the catch block runs and
\* the loop goes on to the delay of the next attempt
RetryFnSettled ==
  /\ retry.pc = "fn"
  /\ IF retry.fnCalls > Len(retry.script)
     THEN retry' = [retry EXCEPT !.pc = "done", !.outcome = "fulfilled",
                                 !.value = [kind |-> "result", text |-> "ok",
                                            by |-> retry.fnCalls]]
     ELSE \E r \in RandomTenths :
            retry' = Caught([retry EXCEPT
                               !.log = Append(retry.log,
                                              LogEntry("failed", retry.attempt,
                                                       ThrownBy(retry.fnCalls)))],
                            ThrownBy(retry.fnCalls), r)
  /\ UNCHANGED <<authVars, throwsOn, timeout, pool, details>>

\* the delay has elapsed: onRetry(lastError, attempt) if provided, then fn is
\* invoked again and awaited; what onRetry throws is thrown in the try block
RetryDelayElapsed ==
  /\ retry.pc = "delay"
  /\ LET called == IF retry.onRetry
                   THEN [retry EXCEPT
                           !.onRetryCalls = retry.onRetryCalls + 1,
                           !.log = Append(retry.log,
                                          LogEntry("onRetry", retry.attempt,
                                                   retry.lastError))]
                   ELSE retry
     IN  IF retry.onRetry /\ retry.onRetryThrows
         THEN \E r \in RandomTenths : retry' = Caught(called, CallbackError, r)
         ELSE retry' = [called EXCEPT
                          !.pc = "fn", !.fnCalls = retry.fnCalls + 1,
                          !.log = Append(called.log,
                                         LogEntry("fn", retry.attempt,
                                                  retry.lastError))]
  /\ UNCHANGED <<authVars, throwsOn, timeout, pool, details>>

\* ----------------------------------------------- utils/async.ts withTimeout

\* withTimeout(fn, timeoutMs) was called
InitTimeout ==
  /\ AuthUnused
  /\ retry = NoRetry
  /\ pool = NoPool
  /\ details = NoDetails
  /\ \E fn \in FnBehaviours, timeoutMs \in 1..MaxTimeoutMs :
       timeout = [NoTimeout EXCEPT !.pc = "idle", !.fn = fn,
                                   !.timeoutMs = timeoutMs]

\* resolve(v) or reject(e) of the returned promise: the first one settles it,
\* the following ones do nothing
Settle(t, how, v) ==
  IF t.promise = "pending" THEN [t EXCEPT !.promise = how, !.value = v]
  ELSE t

\* the wrapper is called: the executor arms the timer and calls fn; what fn
\* throws leaves the executor and rejects the promise
TimeoutCall ==
  /\ timeout.pc = "idle"
  /\ LET armed == [timeout EXCEPT !.pc = "called", !.timeoutId = "armed"]
     IN  IF timeout.fn = "throws"
         THEN timeout' = Settle([armed EXCEPT !.inner = "threw",
                                             !.order = <<"inner">>],
                                "rejected", "innerError")
         ELSE timeout' = [armed EXCEPT !.inner = "pending"]
  /\ UNCHANGED <<authVars, throwsOn, retry, pool, details>>

\* time passes
TimeoutTick ==
  /\ timeout.pc = "called"
  /\ timeout.elapsed < MaxElapsedMs
  /\ timeout' = [timeout EXCEPT !.elapsed = timeout.elapsed + 1]
  /\ UNCHANGED <<authVars, throwsOn, retry, pool, details>>

\* the promise of fn settles and the then or catch callback runs:
\* clearTimeout(timeoutId), then resolve(result) or reject(error)
TimeoutInnerSettled ==
  /\ timeout.pc = "called"
  /\ timeout.inner = "pending"
  /\ LET cleared == [timeout EXCEPT
                       !.timeoutId = IF timeout.timeoutId = "armed"
                                     THEN "cleared" ELSE timeout.timeoutId,
                       !.order = Append(timeout.order, "inner")]
     IN  IF timeout.fn = "fulfils"
         THEN timeout' = Settle([cleared EXCEPT !.inner = "fulfilled"],
                                "fulfilled", "result")
         ELSE timeout' = Settle([cleared EXCEPT !.inner = "rejected"],
                                "rejected", "innerError")
  /\ UNCHANGED <<authVars, throwsOn, retry, pool, details>>

\* the timer fires, at timeoutMs or later: reject(TimeoutError)
TimeoutTimerFired ==
  /\ timeout.pc = "called"
  /\ timeout.timeoutId = "armed"
  /\ timeout.elapsed >= timeout.timeoutMs
  /\ timeout' = Settle([timeout EXCEPT !.timeoutId = "fired",
                                       !.order = Append(timeout.order, "timer")],
                       "rejected", "TimeoutError")
  /\ UNCHANGED <<authVars, throwsOn, retry, pool, details>>

\* ------------------------------------------- utils/async.ts withConcurrency

\* withConcurrency(items, fn, concurrency) is about to be called with
\* `length` items; fn rejects for the items in `fails`
InitPool ==
  /\ AuthUnused
  /\ retry = NoRetry
  /\ timeout = NoTimeout
  /\ details = NoDetails
  /\ \E length \in 0..MaxItems, concurrency \in -1..MaxConcurrency :
       \E fails \in {f \in SUBSET (1..length) : Cardinality(f) <= 1} :
         pool = [NoPool EXCEPT !.pc = "idle", !.length = length,
                               !.concurrency = concurrency, !.fails = fails,
                               !.invoked = [i \in 1..length |-> 0]]

\* `Math.min(concurrency, items.length)` mapper calls in Array.from
WorkerCountUncapped(concurrency, length) == length

\* the length of an array-like object: negative lengths count as 0
ToLength(n) == Max(n, 0)

WorkerCount(concurrency, length) == ToLength(Min(concurrency, length))

\* the invocations of fn awaited by a worker
Outstanding == {w \in DOMAIN pool.workers : pool.workers[w].at = "fn"}

\* the body of a worker from the test of its while loop to the await of fn,
\* or to its end; `invoked` counts the invocations of fn for each item
WorkerStep(p) ==
  IF p.currentIndex < p.length
  THEN [worker |-> [at |-> "fn", index |-> p.currentIndex],
        currentIndex |-> p.currentIndex + 1,
        invoked |-> [p.invoked EXCEPT ![p.currentIndex + 1] = @ + 1]]
  ELSE [worker |-> [at |-> "end", index |-> 0],
        currentIndex |-> p.currentIndex,
        invoked |-> p.invoked]

\* the workers Array.from creates one after the other, each run to its
\* first await: worker w takes index w - 1
RECURSIVE StartWorkers(_, _)
StartWorkers(p, k) ==
  IF k = 0 THEN p
  ELSE LET step == WorkerStep(p)
       IN  StartWorkers([p EXCEPT !.workers = Append(p.workers, step.worker),
                                  !.currentIndex = step.currentIndex,
                                  !.invoked = step.invoked], k - 1)

\* Promise.all(workers), then `return results`
AllWorkers(p) ==
  IF p.outcome # "pending" THEN p
  ELSE IF \A w \in DOMAIN p.workers : p.workers[w].at = "end"
  THEN [p EXCEPT !.pc = "done", !.outcome = "fulfilled"]
  ELSE p

\* withConcurrency is called: no items, or the results array, the workers and
\* the await of Promise.all
PoolCall ==
  /\ pool.pc = "idle"
  /\ IF pool.length = 0
     THEN pool' = [pool EXCEPT !.pc = "done", !.outcome = "fulfilled"]
     ELSE pool' = AllWorkers(StartWorkers(
                    [pool EXCEPT !.pc = "all",
                                 !.results = [i \in 1..pool.length |-> EMPTY]],
                    WorkerCount(pool.concurrency, pool.length)))
  /\ UNCHANGED <<authVars, throwsOn, retry, timeout, details>>

\* the fn awaited by worker w settles: its value goes to results[index] and
\* the worker takes the next index or ends; or its error ends the worker and
\* rejects Promise.all, while the other workers go on
PoolItemSettled(w) ==
  /\ w \in Outstanding
  /\ LET index == pool.workers[w].index
     IN  IF ItemAt(index) \in pool.fails
         THEN pool' = [pool EXCEPT
                         !.workers[w] = [at |-> "threw", index |-> index],
                         !.pc = "done",
                         !.outcome = IF pool.outcome = "pending" THEN "rejected"
                                     ELSE pool.outcome,
                         !.error = IF pool.outcome = "pending" THEN ItemAt(index)
                                   ELSE pool.error,
                         !.startedAtFailure =
                           IF pool.outcome = "pending" THEN pool.currentIndex
                           ELSE pool.startedAtFailure]
         ELSE LET stored == [pool EXCEPT
                               !.results[index + 1] = FnValue(ItemAt(index))]
                  step == WorkerStep(stored)
              IN  pool' = AllWorkers([stored EXCEPT
                                        !.workers[w] = step.worker,
                                        !.currentIndex = step.currentIndex,
                                        !.invoked = step.invoked])
  /\ UNCHANGED <<authVars, throwsOn, retry, timeout, details>>

\* ------------------------------------------------ tokens.ts getTokenDetails

\* a manager of index.ts holds no token, or a token with some access token,
\* expiry and type
InitDetails ==
  /\ AuthUnused
  /\ retry = NoRetry
  /\ timeout = NoTimeout
  /\ pool = NoPool
  /\ \/ details = [NoDetails EXCEPT !.pc = "idle"]
     \/ \E accessToken \in AccessTokens, expiresAt \in {0, 50, 3700},
           tokenType \in {NONE, "Bearer"} :
          details = [NoDetails EXCEPT
                       !.pc = "idle",
                       !.token = [accessToken |-> accessToken,
                                  expiresAt |-> expiresAt,
                                  tokenType |-> tokenType,
                                  scope |-> NONE, id |-> NONE]]

\* index.ts getTokenDetails(): null without a token, else the details of
\* tokens.ts
GetTokenDetails ==
  /\ details.pc = "idle"
  /\ details' = [details EXCEPT
                   !.pc = "shown",
                   !.result = IF details.token = NULL THEN NULL
                              ELSE getTokenDetails(details.token, DetailsNow)]
  /\ UNCHANGED <<authVars, throwsOn, retry, timeout, pool>>

\* ------------------------------------------------------- auth/index.ts

\* isAuthenticated()
indexIsAuthenticated == authState.authenticated /\ authState.token # NULL

\* getAuthorizationHeader()
indexGetAuthorizationHeader ==
  IF authState.token = NULL THEN NULL
  ELSE createAuthorizationHeader(authState.token)

\* authenticateWithApiKey: `!apiKey || apiKey.trim().length < 10`
InvalidApiKeyFormat(apiKey) ==
  apiKey = <<>> \/ Len(Trim(apiKey)) < MinApiKeyLength

\* initialize(), to `await this.tokenStorage.getToken(AUTH_STORAGE_KEY)`
IndexInitialize ==
  /\ impl = "index"
  /\ calls' = Started([NoCall EXCEPT !.op = "initialize", !.pc = "getToken",
                                     !.tok = StoreGet(tokenStore, AUTH_STORAGE_KEY)])
  /\ ev' = Ev("", "call", "", <<>>)
  /\ Begin("initialize")
  /\ UNCHANGED <<utilVars, impl, config, now, tokenStore, mgrVars, authState>>

\* initialize(), from the loaded token to its return or to its next await
IndexInitializeLoaded(c) ==
  /\ impl = "index"
  /\ c \in InFlight /\ c.op = "initialize" /\ c.pc = "getToken"
  /\ IF c.tok = NULL
     THEN /\ Return(c, "initialize", "noToken", <<>>)
          /\ UNCHANGED <<authState, tokenStore>>
     ELSE IF validateToken(c.tok, now)
     THEN /\ authState' = [authState EXCEPT
                             !.token = c.tok, !.authenticated = TRUE,
                             !.method = IF c.tok.refreshToken # NONE
                                        THEN OAUTH ELSE API_KEY]
          /\ Return(c, "initialize", "valid", <<>>)
          /\ UNCHANGED tokenStore
     ELSE IF config.autoRefresh /\ c.tok.refreshToken # NONE
     THEN \* this.refreshToken() reads this.state.token, not the loaded token
          /\ IF authState.token = NULL \/ authState.token.refreshToken = NONE
             THEN Suspend(c, [c EXCEPT !.pc = "resumed"], "initialize",
                          "refresh", <<>>)
             ELSE Suspend(c, RefreshStarted(c, "initialize", authState.token),
                          "initialize", "refresh", <<>>)
          /\ UNCHANGED <<authState, tokenStore>>
     ELSE /\ tokenStore' = StoreDelete(tokenStore, AUTH_STORAGE_KEY)
          /\ Suspend(c, [c EXCEPT !.pc = "resumed"], "initialize",
                     "deleteToken", <<>>)
          /\ UNCHANGED authState
  /\ UNCHANGED <<utilVars, impl, config, period, now, mgrVars>>

\* initialize(), after the await of refreshToken() or deleteToken()
IndexInitializeResumed(c) ==
  /\ impl = "index"
  /\ c \in InFlight /\ c.op = "initialize" /\ c.pc = "resumed"
  /\ Return(c, "initialize", "resumed", <<>>)
  /\ UNCHANGED <<utilVars, impl, config, period, now, tokenStore, mgrVars, authState>>

\* refreshToken() called from outside, or through checkAndRefreshToken()
\* (check = TRUE), to its return or to the fetch of refreshOAuthToken
IndexRefreshToken(check) ==
  /\ impl = "index"
  /\ check \in BOOLEAN
  /\ LET skip ==
           \/ authState.token = NULL
           \/ authState.token.refreshToken = NONE
           \/ check /\ ~config.autoRefresh
           \/ check /\ authState.method # OAUTH
           \/ check /\ ~isTokenExpired(authState.token, tokenRefreshThreshold, now)
         name == IF check THEN "checkAndRefreshToken" ELSE "refreshToken"
     IN  IF skip
         THEN /\ ev' = Ev(name, "return", "notRefreshed", <<>>)
              /\ Begin("returnedAtOnce")
              /\ UNCHANGED calls
         ELSE /\ calls' = Started(RefreshStarted(NoCall,
                                    IF check THEN "check" ELSE "explicit",
                                    authState.token))
              /\ ev' = Ev("", "call", "", <<>>)
              /\ Begin("refreshToken")
  /\ UNCHANGED <<utilVars, impl, config, now, tokenStore, mgrVars, authState>>

\* refreshToken(): refreshOAuthToken resolved; to `await saveToken(...)`
IndexRefreshFetched(c, data) ==
  /\ impl = "index"
  /\ c \in InFlight /\ c.op = "refreshToken" /\ c.pc = "fetch"
  /\ data \in Responses
  /\ LET newToken == TokenFromResponse(data, c.rt, now)
     IN  /\ authState' = [authState EXCEPT !.token = newToken]
         /\ tokenStore' = StoreSet(tokenStore, AUTH_STORAGE_KEY, newToken)
         /\ Suspend(c, [c EXCEPT !.pc = "saveToken", !.tok = newToken,
                                  !.rt = NONE],
                    "refreshToken", "saveToken", <<>>)
  /\ UNCHANGED <<utilVars, impl, config, period, now, mgrVars>>

\* refreshToken(): refreshOAuthToken threw; the catch block, to
\* `await deleteToken(...)`
IndexRefreshFailed(c) ==
  /\ impl = "index"
  /\ c \in InFlight /\ c.op = "refreshToken" /\ c.pc = "fetch"
  /\ authState' = [authState EXCEPT !.token = NULL, !.authenticated = FALSE]
  /\ tokenStore' = StoreDelete(tokenStore, AUTH_STORAGE_KEY)
  /\ Suspend(c, [c EXCEPT !.pc = "deleteToken", !.rt = NONE], "refreshToken",
             "deleteToken", <<>>)
  /\ UNCHANGED <<utilVars, impl, config, period, now, mgrVars>>

\* refreshToken() returns (true after the save, false after the delete) to
\* its caller or into the await of initialize()
IndexRefreshReturns(c) ==
  /\ impl = "index"
  /\ c \in InFlight /\ c.op = "refreshToken"
  /\ c.pc \in {"saveToken", "deleteToken"}
  /\ LET out == IF c.pc = "saveToken" THEN "refreshed" ELSE "failed"
     IN  IF c.via = "initialize"
         THEN Suspend(c, [c EXCEPT !.op = "initialize", !.pc = "resumed"],
                      "refreshToken", out, <<>>)
         ELSE Return(c, "refreshToken", out, <<>>)
  /\ UNCHANGED <<utilVars, impl, config, period, now, tokenStore, mgrVars, authState>>

\* authenticateWithApiKey(apiKey), to its return (invalid format: the throw
\* and the catch block) or to `await saveToken(...)`
IndexAuthenticateWithApiKey(apiKey) ==
  /\ impl = "index"
  /\ apiKey \in ApiKeys
  /\ IF InvalidApiKeyFormat(apiKey)
     THEN /\ authState' = [authState EXCEPT !.authenticated = FALSE,
                                            !.token = NULL]
          /\ ev' = Ev("authenticateWithApiKey", "return", AUTHENTICATION, <<>>)
          /\ UNCHANGED <<calls, tokenStore>>
     ELSE LET token == [accessToken |-> apiKey, refreshToken |-> NONE,
                        expiresAt |-> 0, tokenType |-> "Bearer",
                        scope |-> "anthropic.api"]
          IN  /\ tokenStore' = StoreSet(tokenStore, AUTH_STORAGE_KEY, token)
              /\ calls' = Started([NoCall EXCEPT
                                     !.op = "authenticateWithApiKey",
                                     !.pc = "saveToken", !.tok = token])
              /\ ev' = Ev("", "call", "", <<>>)
              /\ UNCHANGED authState
  /\ Begin(IF InvalidApiKeyFormat(apiKey) THEN "returnedAtOnce"
           ELSE "authenticateWithApiKey")
  /\ UNCHANGED <<utilVars, impl, config, now, mgrVars>>

\* authenticateWithApiKey(), after the save: update state, return success
IndexApiKeySaved(c) ==
  /\ impl = "index"
  /\ c \in InFlight /\ c.op = "authenticateWithApiKey" /\ c.pc = "saveToken"
  /\ authState' = [authState EXCEPT !.token = c.tok, !.authenticated = TRUE,
                                    !.method = API_KEY]
  /\ Return(c, "authenticateWithApiKey", "success", <<>>)
  /\ UNCHANGED <<utilVars, impl, config, period, now, tokenStore, mgrVars>>

\* authenticateWithOAuth(), to the await of performOAuthFlow
IndexAuthenticateWithOAuth(n) ==
  /\ impl = "index"
  /\ n \in Nonces
  /\ calls' = Started(FlowStarted(n))
  /\ ev' = Ev("", "call", "", <<>>)
  /\ Begin("authenticateWithOAuth")
  /\ UNCHANGED <<utilVars, impl, config, now, tokenStore, mgrVars, authState>>

\* authenticateWithOAuth(): the result arrived; on success to
\* `await saveToken(...)`, else record the error and return
IndexOAuthResult(c) ==
  /\ impl = "index"
  /\ c \in InFlight /\ c.op = "authenticate" /\ c.pc = "result"
  /\ IF c.res.success /\ c.res.token # NULL
     THEN /\ tokenStore' = StoreSet(tokenStore, AUTH_STORAGE_KEY, c.res.token)
          /\ Suspend(c, [c EXCEPT !.pc = "saveToken"], "authenticate",
                     "saveToken", <<>>)
          /\ UNCHANGED authState
     ELSE /\ Return(c, "authenticateWithOAuth", "failed", <<>>)
          /\ UNCHANGED <<authState, tokenStore>>
  /\ UNCHANGED <<utilVars, impl, config, period, now, mgrVars>>

\* authenticateWithOAuth(), after the save: update state, return the result
IndexOAuthSaved(c) ==
  /\ impl = "index"
  /\ c \in InFlight /\ c.op = "authenticate" /\ c.pc = "saveToken"
  /\ authState' = [authState EXCEPT !.token = c.res.token,
                                    !.authenticated = TRUE, !.method = OAUTH]
  /\ Return(c, "authenticateWithOAuth", "success", <<>>)
  /\ UNCHANGED <<utilVars, impl, config, period, now, tokenStore, mgrVars>>

\* logout(), to `await this.tokenStorage.deleteToken(AUTH_STORAGE_KEY)`
IndexLogout ==
  /\ impl = "index"
  /\ authState' = [authState EXCEPT !.token = NULL, !.authenticated = FALSE,
                                    !.method = NONE]
  /\ tokenStore' = StoreDelete(tokenStore, AUTH_STORAGE_KEY)
  /\ calls' = Started([NoCall EXCEPT !.op = "logout", !.pc = "deleteToken",
                                     !.via = AfterLogout])
  /\ ev' = Ev("", "call", "", <<>>)
  /\ Begin(LogoutCalled)
  /\ UNCHANGED <<utilVars, impl, config, now, mgrVars>>

\* logout(), after the delete: it returns
IndexLogoutDeleted(c) ==
  /\ impl = "index"
  /\ c \in InFlight /\ c.op = "logout" /\ c.pc = "deleteToken"
  /\ Return(c, "logout", c.via, <<>>)
  /\ UNCHANGED <<utilVars, impl, config, period, now, tokenStore, mgrVars, authState>>

\* ----------------------------------------------------------- behaviours

\* One piece of code runs: the clock advances, an operation is called or an
\* armed timer fires, or a call in flight resumes after its await.

\* Any interleaving: calls are made while others are in flight.
Next ==
  \/ Tick
  \/ CanStart /\ ManagerInitialize
  \/ CanStart /\ ManagerLogout
  \/ \E method \in {NONE, API_KEY, OAUTH}, n \in Nonces :
       CanStart /\ ManagerAuthenticate(method, n)
  \/ \E t \in timers : CanStart /\ ManagerTimerFires(t)
  \/ CanStart /\ IndexInitialize
  \/ CanStart /\ IndexLogout
  \/ \E check \in BOOLEAN : CanStart /\ IndexRefreshToken(check)
  \/ \E apiKey \in ApiKeys : CanStart /\ IndexAuthenticateWithApiKey(apiKey)
  \/ \E n \in Nonces : CanStart /\ IndexAuthenticateWithOAuth(n)
  \/ \E c \in InFlight : ManagerInitializeLoaded(c)
  \/ \E c \in InFlight : ManagerRefreshSaved(c)
  \/ \E c \in InFlight : ManagerRefreshFailed(c)
  \/ \E c \in InFlight : ManagerInitializeRefreshed(c)
  \/ \E c \in InFlight : ManagerInitializeCatch(c)
  \/ \E c \in InFlight : ManagerLogoutDeleted(c)
  \/ \E c \in InFlight : ManagerAuthenticateResult(c)
  \/ \E c \in InFlight : ManagerAuthenticateSaved(c)
  \/ \E c \in InFlight, data \in Responses : ManagerRefreshFetched(c, data)
  \/ \E c \in InFlight : OAuthBrowserOpened(c)
  \/ \E c \in InFlight : OAuthBrowserFailed(c)
  \/ \E c \in InFlight, receivedState \in Nonces : OAuthCallback(c, receivedState)
  \/ \E c \in InFlight, data \in Responses : OAuthExchanged(c, data)
  \/ \E c \in InFlight : OAuthExchangeFailed(c)
  \/ \E c \in InFlight : IndexInitializeLoaded(c)
  \/ \E c \in InFlight : IndexInitializeResumed(c)
  \/ \E c \in InFlight : IndexRefreshFailed(c)
  \/ \E c \in InFlight : IndexRefreshReturns(c)
  \/ \E c \in InFlight : IndexApiKeySaved(c)
  \/ \E c \in InFlight : IndexOAuthResult(c)
  \/ \E c \in InFlight : IndexOAuthSaved(c)
  \/ \E c \in InFlight : IndexLogoutDeleted(c)
  \/ \E c \in InFlight, data \in Responses : IndexRefreshFetched(c, data)

Spec == Init /\ [][Next]_vars

\* Sequential use: every call is awaited before the next one is made, and a
\* timer fires only between calls.
NextSeq ==
  \/ Tick
  \/ Idle /\ ManagerInitialize
  \/ Idle /\ ManagerLogout
  \/ \E method \in {NONE, API_KEY, OAUTH}, n \in Nonces :
       Idle /\ ManagerAuthenticate(method, n)
  \/ \E t \in timers : Idle /\ ManagerTimerFires(t)
  \/ Idle /\ IndexInitialize
  \/ Idle /\ IndexLogout
  \/ \E check \in BOOLEAN : Idle /\ IndexRefreshToken(check)
  \/ \E apiKey \in ApiKeys : Idle /\ IndexAuthenticateWithApiKey(apiKey)
  \/ \E n \in Nonces : Idle /\ IndexAuthenticateWithOAuth(n)
  \/ \E c \in InFlight : ManagerInitializeLoaded(c)
  \/ \E c \in InFlight : ManagerRefreshSaved(c)
  \/ \E c \in InFlight : ManagerRefreshFailed(c)
  \/ \E c \in InFlight : ManagerInitializeRefreshed(c)
  \/ \E c \in InFlight : ManagerInitializeCatch(c)
  \/ \E c \in InFlight : ManagerLogoutDeleted(c)
  \/ \E c \in InFlight : ManagerAuthenticateResult(c)
  \/ \E c \in InFlight : ManagerAuthenticateSaved(c)
  \/ \E c \in InFlight, data \in Responses : ManagerRefreshFetched(c, data)
  \/ \E c \in InFlight : OAuthBrowserOpened(c)
  \/ \E c \in InFlight : OAuthBrowserFailed(c)
  \/ \E c \in InFlight, receivedState \in Nonces : OAuthCallback(c, receivedState)
  \/ \E c \in InFlight, data \in Responses : OAuthExchanged(c, data)
  \/ \E c \in InFlight : OAuthExchangeFailed(c)
  \/ \E c \in InFlight : IndexInitializeLoaded(c)
  \/ \E c \in InFlight : IndexInitializeResumed(c)
  \/ \E c \in InFlight : IndexRefreshFailed(c)
  \/ \E c \in InFlight : IndexRefreshReturns(c)
  \/ \E c \in InFlight : IndexApiKeySaved(c)
  \/ \E c \in InFlight : IndexOAuthResult(c)
  \/ \E c \in InFlight : IndexOAuthSaved(c)
  \/ \E c \in InFlight : IndexLogoutDeleted(c)
  \/ \E c \in InFlight, data \in Responses : IndexRefreshFetched(c, data)

SpecSeq == Init /\ [][NextSeq]_vars

\* manager.ts with listeners that throw, each call awaited before the next
NextListener ==
  \/ Idle /\ ManagerInitialize
  \/ Idle /\ ListenerAuthenticate
  \/ Idle /\ ManagerLogout
  \/ \E c \in InFlight : ListenerInitializeLoaded(c)
  \/ \E c \in InFlight : ListenerAuthenticateResult(c)
  \/ \E c \in InFlight : ListenerAuthenticateSaved(c)
  \/ \E c \in InFlight : ListenerLogoutDeleted(c)

SpecListener == InitListener /\ [][NextListener]_vars

\* one call of a function made by withRetry
NextRetry ==
  \/ RetryCall
  \/ RetryFnSettled
  \/ RetryDelayElapsed

SpecRetry == InitRetry /\ [][NextRetry]_vars

\* one call of a function made by withTimeout
NextTimeout ==
  \/ TimeoutCall
  \/ TimeoutTick
  \/ TimeoutInnerSettled
  \/ TimeoutTimerFired

SpecTimeout == InitTimeout /\ [][NextTimeout]_vars

\* one call of withConcurrency
NextPool ==
  \/ PoolCall
  \/ \E w \in DOMAIN pool.workers : PoolItemSettled(w)

SpecPool == InitPool /\ [][NextPool]_vars

\* one call of getTokenDetails
NextDetails ==
  \/ GetTokenDetails

SpecDetails == InitDetails /\ [][NextDetails]_vars

\* ------------------------------------------------------------ properties

\* What the token store holds for the manager in use.
Persisted ==
  IF impl = "manager" THEN StoreGet(tokenStore, TOKEN_KEY)
  ELSE StoreGet(tokenStore, AUTH_STORAGE_KEY)

\* The credential the manager in use holds in memory.
Held == IF impl = "manager" THEN currentToken ELSE authState.token

\* The last piece of code was the return of operation op with outcome out.
Returned(op, out) == ev.op = op /\ ev.at = "return" /\ ev.out = out

\* C1: in every reachable state, whatever the interleaving of the calls, a
\* manager that is Authenticated holds a credential: manager.ts has
\* state = AUTHENTICATED only with currentToken non-null, index.ts has
\* state.authenticated only with state.token non-null.
C1_AuthenticatedHoldsCredential ==
  /\ (impl = "manager" /\ state = AUTHENTICATED) => currentToken # NULL
  /\ (impl = "index" /\ authState.authenticated) => authState.token # NULL

\* C2: when refreshToken() returns because the refresh failed, the manager
\* is not authenticated, holds no credential in memory and none is persisted;
\* manager.ts is in the Failed state.
C2_RefreshFailureClears ==
  Returned("refreshToken", "failed") =>
    /\ Held = NULL
    /\ Persisted = NULL
    /\ impl = "manager" => state = FAILED /\ ~isAuthenticated
    /\ impl = "index" => ~indexIsAuthenticated

\* C3: whenever isAuthenticated() is false (Initial, Authenticating,
\* Refreshing, Failed, or a credential that is expired),
\* getAuthorizationHeader() is null.
C3_NoHeaderUnlessAuthenticated ==
  /\ (impl = "manager" /\ ~isAuthenticated) => getAuthorizationHeader = NULL
  /\ (impl = "index" /\ ~indexIsAuthenticated) =>
       indexGetAuthorizationHeader = NULL

\* A refreshToken() and an authenticate() were in flight together, no other
\* operation with them, and both have returned.
RefreshAndAuthenticateReturned ==
  /\ Idle
  /\ Len(period) = 2
  /\ \E i \in 1..2 :
       /\ period[i] = "refreshToken"
       /\ period[3 - i] \in {"authenticateWithApiKey", "authenticateWithOAuth"}

\* C4: once a refreshToken() and an authenticate() that were in flight
\* together have both returned, the manager is either authenticated, holding
\* the credential that is persisted, or not authenticated (manager.ts: Failed
\* or Initial) with no credential in memory and none persisted.
C4_RefreshAuthenticateConsistent ==
  RefreshAndAuthenticateReturned =>
    \/ /\ Held # NULL
       /\ Persisted = Held
       /\ impl = "manager" => state = AUTHENTICATED
       /\ impl = "index" => authState.authenticated
    \/ /\ Held = NULL
       /\ Persisted = NULL
       /\ impl = "manager" => state \in {FAILED, INITIAL}
       /\ impl = "index" => ~authState.authenticated

\* C5: a call of authenticateWithApiKey of index.ts with a key that is empty or, once
\* trimmed, shorter than 10 characters fails with an error of the Validation
\* category and changes neither the authentication state nor the store.
C5_ShortKeyRejectedUnchanged ==
  [][(/\ impl = "index"
      /\ ev'.op = "authenticateWithApiKey"
      /\ ev'.at = "return"
      /\ ev'.out # "success")
     => /\ ev'.out = VALIDATION
        /\ authState' = authState
        /\ tokenStore' = tokenStore]_vars

\* C6: when an API-key authentication returns success, the credential held
\* has no refresh token and expiresAt 0, the same credential is persisted,
\* and isAuthenticated() is true.
C6_ApiKeyCredentialNeverExpires ==
  Returned("authenticateWithApiKey", "success") =>
    /\ Held # NULL
    /\ Held.refreshToken = NONE
    /\ Held.expiresAt = 0
    /\ Persisted = Held
    /\ impl = "manager" => isAuthenticated
    /\ impl = "index" => indexIsAuthenticated

\* C7: an OAuth flow whose callback carried a state other than the one the
\* flow generated has made no call to the token-exchange endpoint and ends
\* with a failure result.
C7_StateMismatchNoExchange ==
  \A c \in InFlight :
    (c.recv # NONE /\ c.recv # c.nonce) =>
      /\ c.exch = 0
      /\ c.pc = "result"
      /\ ~c.res.success
      /\ c.res.token = NULL

\* A flow has received a callback with a foreign state and has ended.
C7_Witness ==
  \E c \in InFlight :
    c.recv # NONE /\ c.recv # c.nonce /\ c.nonce # NONE /\ c.pc = "result"

\* C8: an initialize() that returns having accepted the persisted credential
\* as it is did not load a refreshable credential whose remaining lifetime is
\* within tokenRefreshThreshold: for such a credential it attempts the
\* inline refresh first.
C8_InitializeRefreshesNearExpiry ==
  Returned("initialize", "valid") =>
    ~(/\ Held # NULL
      /\ Held.refreshToken # NONE
      /\ isTokenExpired(Held, tokenRefreshThreshold, now))

\* C9: when initialize() of manager.ts returns after its inline refresh
\* failed, the credential is discarded and the state is Initial, not Failed.
C9_InitializeRefreshFailureIsInitial ==
  (impl = "manager" /\ Returned("initialize", "refreshFailed")) =>
    /\ currentToken = NULL
    /\ state = INITIAL
    /\ ~isAuthenticated

\* initialize() of manager.ts has returned after a failed inline refresh.
C9_Witness ==
  /\ impl = "manager"
  /\ Returned("initialize", "refreshFailed")
  /\ Persisted # NULL

\* C10: a logout() called directly after a logout() returned leaves the
\* manager as the first one left it (Initial, no credential in memory or
\* persisted, no timer armed) and emits no notification.
C10_SecondLogoutSilent ==
  Returned("logout", "afterLogout") =>
    /\ Held = NULL
    /\ Persisted = NULL
    /\ impl = "manager" => state = INITIAL /\ refreshTimer = 0 /\ timers = {}
    /\ impl = "index" => ~authState.authenticated
    /\ ev.emitted = <<>>

\* C11: whenever a refresh timer is armed, the manager holds a credential
\* that has a refreshToken: a static credential is never scheduled for
\* renewal, whatever calls came before.
C11_TimerOnlyForRefreshable ==
  (impl = "manager" /\ timers # {}) =>
    /\ currentToken # NULL
    /\ currentToken.refreshToken # NONE

\* C12: at most one refresh timer is outstanding, and it is the one whose
\* handle the manager keeps: every arming cancels the timer armed before.
C12_AtMostOneTimer ==
  /\ Cardinality(timers) <= 1
  /\ \A t \in timers : t.id = refreshTimer

\* initialize() has armed the timer again for a credential whose earlier
\* timer is not due yet.
C12_Witness ==
  /\ impl = "manager"
  /\ Returned("initialize", "valid")
  /\ \E t \in timers : t.due > now

\* C13: every change of the state of manager.ts is one of the transitions of
\* the specified state machine: Initial->Authenticating,
\* Failed->Authenticating, Authenticating->Authenticated,
\* Authenticating->Failed, Authenticated->Refreshing,
\* Refreshing->Authenticated, Refreshing->Failed, Authenticated->Initial.
C13_OnlySpecifiedTransitions ==
  [][(impl = "manager" /\ state' # state) =>
       <<state, state'>> \in
         {<<INITIAL, AUTHENTICATING>>, <<FAILED, AUTHENTICATING>>,
          <<AUTHENTICATING, AUTHENTICATED>>, <<AUTHENTICATING, FAILED>>,
          <<AUTHENTICATED, REFRESHING>>, <<REFRESHING, AUTHENTICATED>>,
          <<REFRESHING, FAILED>>, <<AUTHENTICATED, INITIAL>>}]_vars

\* C14: when refreshToken() has succeeded (called from outside, by the timer
\* or inline by initialize()), the credential held is the one persisted, the
\* manager is authenticated, and with autoRefresh the timer is armed for the
\* credential held.
C14_RefreshSuccessRearms ==
  (\/ Returned("refreshToken", "refreshed")
   \/ Returned("initialize", "refreshed")) =>
    /\ Held # NULL
    /\ Persisted = Held
    /\ impl = "manager" => isAuthenticated
    /\ impl = "index" => indexIsAuthenticated
    /\ config.autoRefresh =>
         \E t \in timers :
           /\ t.id = refreshTimer
           /\ \/ t.due = Held.expiresAt - tokenRefreshThreshold
              \/ t.due <= now

\* C15: a refresh of manager.ts that ends in Failed because of a transient
\* network error has been retried: maxRetryAttempts + 1 requests were sent
\* to the token endpoint before the manager gave up.
C15_RefreshRetriedBeforeFailed ==
  [][(/\ impl = "manager"
      /\ ev'.op = "refreshToken" /\ ev'.at = "return" /\ ev'.out = "failed"
      /\ ev'.err = "network"
      /\ state' = FAILED)
     => \E c \in InFlight :
          /\ c.op = "refreshToken" /\ c.pc = "fetch"
          /\ calls' = Finished(c)
          /\ c.exch = maxRetryAttempts + 1]_vars

\* C16: a listener that throws aborts no operation and changes no outcome:
\* no call ends with the listener's exception; authenticate() with an API
\* key configured returns success and leaves the manager Authenticated with
\* the credential held and persisted; logout() leaves it Initial without a
\* credential; initialize() leaves it Authenticated with the persisted
\* credential, or Initial without one.
C16_ThrowingListenerHarmless ==
  /\ ev.out # "listenerThrew"
  /\ (ev.op = "authenticateWithApiKey" /\ ev.at = "return"
        /\ config.apiKey # <<>>) =>
       /\ ev.out = "success"
       /\ state = AUTHENTICATED
       /\ currentToken # NULL /\ Persisted = currentToken
  /\ (ev.op = "logout" /\ ev.at = "return") =>
       state = INITIAL /\ currentToken = NULL /\ Persisted = NULL
  /\ (ev.op = "initialize" /\ ev.at = "return") =>
       /\ currentToken = Persisted
       /\ state = IF Persisted = NULL THEN INITIAL ELSE AUTHENTICATED

\* C17: without an isRetryable predicate, a function that fails n times and
\* then succeeds, called through withRetry: if maxRetries >= n the call
\* returns the success value and onRetry has been invoked exactly n times;
\* if maxRetries < n the call raises the failure of the last invocation and
\* the function has been invoked exactly maxRetries + 1 times.
C17_RetryCounts ==
  (retry.pc = "done" /\ retry.isRetryable = NONE /\ retry.onRetry
     /\ ~retry.onRetryThrows) =>
    IF retry.maxRetries >= Len(retry.script)
    THEN /\ retry.outcome = "fulfilled"
         /\ retry.value.text = "ok"
         /\ retry.onRetryCalls = Len(retry.script)
    ELSE /\ retry.outcome = "rejected"
         /\ retry.fnCalls = retry.maxRetries + 1
         /\ retry.value = ThrownBy(retry.fnCalls)

\* C18: when withRetry gives up, on exhausted retries or on an error that
\* isRetryable refuses, the caller receives the very value the last
\* invocation of the function raised, Error instance or not.
C18_LastErrorUnchanged ==
  (retry.pc = "done" /\ retry.outcome = "rejected" /\ ~retry.onRetryThrows) =>
    retry.value = ThrownBy(retry.fnCalls)

\* what the call of a function made by withTimeout has settled with, given
\* which came first, the outcome of the inner operation or the timer
TimeoutSettledAsFirst ==
  timeout.order # <<>> =>
    /\ timeout.promise # "pending"
    /\ IF timeout.order[1] = "timer"
       THEN timeout.promise = "rejected" /\ timeout.value = "TimeoutError"
       ELSE /\ timeout.promise = (IF timeout.fn = "fulfils" THEN "fulfilled"
                                  ELSE "rejected")
            /\ timeout.value = (IF timeout.fn = "fulfils" THEN "result"
                                ELSE "innerError")

\* C19: the call of a function made by withTimeout settles once: with the
\* inner operation's outcome if that comes before the timer, else with a
\* TimeoutError; a later outcome changes nothing; and once the call has
\* settled through the inner operation the timer is not armed.
C19_TimeoutSettlesOnceNoLeak ==
  /\ [](TimeoutSettledAsFirst
        /\ ((timeout.promise # "pending" /\ timeout.value # "TimeoutError")
              => timeout.timeoutId # "armed"))
  /\ [][timeout.promise # "pending" =>
          (timeout'.promise = timeout.promise /\ timeout'.value = timeout.value)]_vars

\* C20: during withConcurrency with a limit of at least 1, never more than
\* `limit` invocations of fn are outstanding, whatever the order in which the
\* items complete.
C20_AtMostLimitOutstanding ==
  pool.concurrency >= 1 => Cardinality(Outstanding) <= pool.concurrency

\* the limit is reached with more items than the limit, after a worker has
\* gone on to a further item
C20_Witness ==
  /\ pool.concurrency >= 1
  /\ pool.length > pool.concurrency
  /\ pool.currentIndex > pool.concurrency
  /\ Cardinality(Outstanding) = pool.concurrency

\* C21: when withConcurrency resolves, result[i] is the value of
\* fn(items[i], i) for every index i, in input order, whatever the order in
\* which the invocations completed.
C21_ResultsInInputOrder ==
  (pool.pc = "done" /\ pool.outcome = "fulfilled") =>
    pool.results = [i \in 1..pool.length |-> FnValue(i)]

\* C22: withConcurrency fails fast: once an item has failed, the call is
\* rejected with that item's error and no item that had not been started at
\* the failure is invoked afterwards.
C22_FailFastAborts ==
  pool.startedAtFailure >= 0 =>
    /\ pool.outcome = "rejected"
    /\ pool.error \in pool.fails
    /\ pool.currentIndex = pool.startedAtFailure

\* C29: when withConcurrency resolves, fn has been invoked exactly once for
\* every index of the input, for every concurrency argument, zero and
\* negative ones included.
C29_EveryIndexOnce ==
  (pool.pc = "done" /\ pool.outcome = "fulfilled") =>
    \A i \in 1..pool.length : pool.invoked[i] = 1

\* C23: the access token getTokenDetails displays shows the first 4 and the
\* last 4 characters of the token around "..." and leaves at least one
\* character of the token out, for a token of any length.
C23_AccessTokenMasked ==
  IF details.pc = "shown" /\ details.token # NULL
  THEN LET tok == details.token.accessToken
           shown == details.result.accessToken
       IN  tok # <<>> =>
             /\ shown = SubSeq(tok, 1, Min(4, Len(tok))) \o <<".", ".", ".">>
                          \o SubSeq(tok, Max(1, Len(tok) - 3), Len(tok))
             /\ Len(shown) - 3 < Len(tok)
  ELSE TRUE

\* C24: for every retry of withRetry, onRetry(lastError, attemptNumber) is
\* invoked before the sleep that precedes the retry: each sleep comes right
\* after the onRetry call of the same attempt, and each onRetry call comes
\* right after a failure, with that failure's error and with attempt
\* numbers counting from 1.
C24_OnRetryBeforeSleep ==
  (retry.onRetry /\ ~retry.onRetryThrows) =>
    \A i \in DOMAIN retry.log :
      /\ retry.log[i].what = "sleep" =>
           /\ i > 1
           /\ retry.log[i - 1].what = "onRetry"
           /\ retry.log[i - 1].attempt = retry.log[i].attempt
      /\ retry.log[i].what = "onRetry" =>
           /\ i > 1
           /\ retry.log[i - 1].what = "failed"
           /\ retry.log[i].error = retry.log[i - 1].error
           /\ retry.log[i].attempt =
                Cardinality({j \in 1..i : retry.log[j].what = "onRetry"})

\* C30: every error a call through withRetry raises is the error of the
\* last invocation of the operation, the operation is invoked at most
\* maxRetries + 1 times, and what onRetry throws is never received by the
\* caller, never recorded as the last error, and never uses up an attempt
\* without the operation being invoked.
C30_OnRetryFailureContained ==
  /\ retry.fnCalls <= retry.maxRetries + 1
  /\ retry.lastError # CallbackError
  /\ retry.pc \in {"fn", "done"} => retry.fnCalls = retry.attempt + 1
  /\ (retry.pc = "done" /\ retry.outcome = "rejected") =>
       /\ retry.value # CallbackError
       /\ retry.value = ThrownBy(retry.fnCalls)

\* C25: whenever no operation of the manager is in flight, the credential
\* held in memory is the record of the token store under the manager's key:
\* both absent, or the same credential.
C25_HeldEqualsPersisted ==
  Idle => Held = Persisted

\* C26: a logout() called while refreshToken() or authenticate() was
\* suspended is not undone: when all operations have returned, and no
\* authenticate() was started after the logout, the manager is not
\* authenticated, holds no credential, the store is empty and no timer is
\* armed.
C26_LogoutNotUndone ==
  (/\ Idle
   /\ Len(period) = 2
   /\ period[1] \in {"refreshToken", "authenticateWithOAuth"}
   /\ period[2] = "logoutDuringExchange") =>
    /\ ~isAuthenticated /\ ~indexIsAuthenticated
    /\ Held = NULL
    /\ Persisted = NULL
    /\ timers = {}

\* C27: at most one refresh exchange is in flight per manager at any time.
C27_OneRefreshExchange ==
  LET exchanges == {c \in InFlight : c.op = "refreshToken" /\ c.pc = "fetch"}
  IN  /\ Cardinality(exchanges) <= 1
      /\ \A c \in exchanges : CopiesIn(c, calls) = 1

====
